---- MODULE Spec2Model ----
(***************************************************************************)
(* A model of fractalExplorer.cpp: the escape-time iteration, the colour   *)
(* mapper, the region and preview renderers, the fork-join scheduler, the  *)
(* high-resolution export and the interactive main loop.                   *)
(*                                                                         *)
(* Numbers.  A C++ double or float is modelled as a fixed-point integer    *)
(* counted in units of 1/Scale, every operation truncating to that grid    *)
(* (where IEEE arithmetic rounds).  The values IEEE arithmetic has beyond  *)
(* the finite ones (NaN, +Inf, -Inf) are kept where the code can produce   *)
(* them: a coloring scalar is a record [k, v] with k in "fin", "nan",      *)
(* "inf" (v the sign of an infinity).                                      *)
(***************************************************************************)
EXTENDS Integers, Sequences, FiniteSets, TLC

(***************************************************************************)
(* Bounds of the model.                                                    *)
(***************************************************************************)
\* the largest width and height of a pixel buffer handed to a render call
MaxWidth == 3
MaxHeight == 4
\* the largest number of worker threads (std::thread::hardware_concurrency)
MaxThreads == 2
\* the largest block size handed to renderPreview
MaxDownscale == 3
\* the largest upscale factor handed to saveHighResScreenshot
MaxScale == 2
\* the number of window events the main loop receives
MaxEvents == 2
\* the points handed to calculateFractal lie within MaxCoord whole units of
\* the origin on both axes
MaxCoord == 2
\* the number of window events the main loop receives when it is resumed from
\* a state in the middle of a session
MaxInputs == 1
\* the largest iteration count of a result handed to the colour mapper
MaxCount == 3
\* the number of presses of the C key the palette harness receives
MaxPresses == 6

(***************************************************************************)
(* Program constants.                                                      *)
(***************************************************************************)
\* fixed-point resolution standing for the precision of double
Scale == 2 ^ 4
\* ESCAPE_RADIUS_SQUARED = 100.0 * 100.0, in units of 1/Scale
ESCAPE_RADIUS_SQUARED == 100 * 100 * Scale
PREVIEW_DOWNSCALE == 12
\* WINDOW_WIDTH and WINDOW_HEIGHT (800 in the program) scaled down
WINDOW_WIDTH == 2
WINDOW_HEIGHT == 1
SCREENSHOT_SCALE == 3
\* colorDensity is kept in hundredths (0.2 is 20)
DensityScale == 100
\* stripeFrequency is kept in tenths (5 is 50)
FrequencyScale == 10
INT_MIN == -2147483647 - 1
INT_MAX == 2147483647

(***************************************************************************)
(* Fixed-point arithmetic.                                                 *)
(***************************************************************************)
Abs(a) == IF a < 0 THEN -a ELSE a

\* a * b of two fixed-point numbers, without forming the double-width product
MulFix(a, b) == (a \div Scale) * b + ((a % Scale) * b) \div Scale

\* truncation toward zero, as static_cast<int> of a finite value in range
Trunc(t) == IF t >= 0 THEN t \div Scale ELSE -((-t) \div Scale)

Fin(v) == [k |-> "fin", v |-> v]
NaN == [k |-> "nan", v |-> 0]
Inf(s) == [k |-> "inf", v |-> s]

RECURSIVE FloorLog2(_)
\* the e with 2^e <= n < 2^(e+1), n >= 1
FloorLog2(n) == IF n < 2 THEN 0 ELSE 1 + FloorLog2(n \div 2)

\* log2 of a fixed-point number v > 0, in fixed point: the exponent plus the
\* mantissa's fraction, linearly interpolated between powers of two
Log2Fix(v) ==
    IF v >= Scale
    THEN LET e == FloorLog2(v \div Scale)
             m == v \div (2 ^ e)
         IN  e * Scale + (m - Scale)
    ELSE LET e == FloorLog2(Scale \div v) + (IF 2 ^ FloorLog2(Scale \div v) * v < Scale THEN 1 ELSE 0)
             m == v * (2 ^ e)
         IN  (m - Scale) - e * Scale

\* log(x) of <cmath> on a coloring scalar: log(0) = -Inf, log(x < 0) = NaN
Log(x) ==
    IF x.k = "nan" THEN NaN
    ELSE IF x.k = "inf" THEN (IF x.v > 0 THEN Inf(1) ELSE NaN)
    ELSE IF x.v < 0 THEN NaN
    ELSE IF x.v = 0 THEN Inf(-1)
    ELSE Fin((Log2Fix(x.v) * 693) \div 1000)

\* x / d for a finite d > 0
DivBy(x, d) == IF x.k = "fin" THEN Fin((x.v * Scale) \div d) ELSE x
Half(x) == IF x.k = "fin" THEN Fin(x.v \div 2) ELSE x

\* a - x for a finite a
SubFrom(a, x) ==
    IF x.k = "fin" THEN Fin(a - x.v)
    ELSE IF x.k = "inf" THEN Inf(-x.v)
    ELSE NaN

(***************************************************************************)
(* calculateFractal.                                                       *)
(***************************************************************************)
\* pi and the two phase functions of the stripe term, on the fixed-point grid
Pi == (355 * Scale) \div 113

\* atan2(y, x): linear in the smaller/larger ratio inside an octant
Atan2Fix(y, x) ==
    LET ax == Abs(x)
        ay == Abs(y)
        a  == IF ax = 0 /\ ay = 0 THEN 0
              ELSE IF ax >= ay THEN (Pi * ay) \div (4 * ax)
              ELSE (Pi \div 2) - (Pi * ax) \div (4 * ay)
        q  == IF x >= 0 THEN a ELSE Pi - a
    IN  IF y >= 0 THEN q ELSE -q

\* powf(sin(a), 2.0): period pi, 0 at 0 and 1 at pi/2
Sin2Fix(a) ==
    LET u == a % Pi
    IN  (4 * u * (Pi - u) * Scale) \div (Pi * Pi)

\* the arguments of one call
CfArgs(cr, ci, jr, ji, maxIter, isJulia, fractalType, stripes, stripeFrequency, innerCalculation) ==
    [cr |-> cr, ci |-> ci, jr |-> jr, ji |-> ji, maxIter |-> maxIter,
     isJulia |-> isJulia, fractalType |-> fractalType, stripes |-> stripes,
     stripeFrequency |-> stripeFrequency, innerCalculation |-> innerCalculation]

\* a ReturnInfo whose smoothIteration and stripeSum were not assigned (they
\* are never read when iteration is -1)
Sentinel == [iteration |-> -1, smoothIteration |-> NaN, stripeSum |-> 0]

\* i + 1 - log(log(zr2 + zi2) / 2) / log(2)
SmoothIteration(i, r2) ==
    SubFrom((i + 1) * Scale, DivBy(Log(Half(Log(Fin(r2)))), Log(Fin(2 * Scale)).v))

\* the early bailout tests of the cardioid and of the period-2 bulb
InCardioid(cr, ci) ==
    LET d == cr - Scale \div 4
        q == MulFix(d, d) + MulFix(ci, ci)
    IN  MulFix(q, q + d) < MulFix(Scale \div 4, MulFix(ci, ci))

InBulb(cr, ci) ==
    MulFix(cr + Scale, cr + Scale) + MulFix(ci, ci) < Scale \div 16

\* the locals of the call when the loop is first reached, or the returned
\* sentinel when a bailout test matched
cfEnter(a) ==
    LET zr == IF a.isJulia THEN a.cr ELSE 0
        zi == IF a.isJulia THEN a.ci ELSE 0
        bail == /\ a.innerCalculation /\ ~a.isJulia /\ a.fractalType = 0
                /\ (InCardioid(a.cr, a.ci) \/ InBulb(a.cr, a.ci))
    IN  [pc |-> IF bail THEN "done" ELSE "loop",
         exit |-> IF bail THEN "bailout" ELSE "none",
         zr |-> zr, zi |-> zi,
         cr_actual |-> IF a.isJulia THEN a.jr ELSE a.cr,
         ci_actual |-> IF a.isJulia THEN a.ji ELSE a.ci,
         zr2 |-> MulFix(zr, zr), zi2 |-> MulFix(zi, zi),
         stripeSum |-> 0, i |-> 0,
         ret |-> Sentinel]

\* a variant of CapReached: the cap is tested one pass late
CapReachedLate(i, maxIter) == i > maxIter

\* the test i == maxIter at the end of the loop body
CapReached(i, maxIter) == i = maxIter

\* a variant of cfPass: the escape exit reports the passes that remain
cfPassRemaining(c, a) ==
    IF c.zr2 + c.zi2 < ESCAPE_RADIUS_SQUARED
    THEN LET zi1 == IF a.fractalType = 0 THEN MulFix(2 * c.zr, c.zi)
                    ELSE 2 * Abs(MulFix(c.zr, c.zi))
             zi  == zi1 + c.ci_actual
             zr  == c.zr2 - c.zi2 + c.cr_actual
             zr2 == MulFix(zr, zr)
             zi2 == MulFix(zi, zi)
             sum == IF a.stripes
                    THEN c.stripeSum + Sin2Fix((Atan2Fix(zi, zr) * a.stripeFrequency) \div FrequencyScale)
                    ELSE c.stripeSum
             i   == c.i + 1
             n   == [c EXCEPT !.zr = zr, !.zi = zi, !.zr2 = zr2, !.zi2 = zi2,
                              !.stripeSum = sum, !.i = i]
         IN  IF CapReached(i, a.maxIter)
             THEN IF a.innerCalculation
                  THEN [n EXCEPT !.pc = "done", !.exit = "cap",
                                 !.ret = [iteration |-> i,
                                          smoothIteration |-> SmoothIteration(i, zr2 + zi2),
                                          stripeSum |-> sum]]
                  ELSE [n EXCEPT !.pc = "done", !.exit = "cap", !.ret = Sentinel]
             ELSE n
    ELSE [c EXCEPT !.pc = "done", !.exit = "escape",
                   !.ret = [iteration |-> a.maxIter - c.i,
                            smoothIteration |-> SmoothIteration(c.i, c.zr2 + c.zi2),
                            stripeSum |-> c.stripeSum]]

\* a variant of cfPass: an orbit that leaves the radius in the pass before the
\* cap is reported as the sentinel
cfPassInterior(c, a) ==
    IF c.zr2 + c.zi2 < ESCAPE_RADIUS_SQUARED
    THEN LET zi1 == IF a.fractalType = 0 THEN MulFix(2 * c.zr, c.zi)
                    ELSE 2 * Abs(MulFix(c.zr, c.zi))
             zi  == zi1 + c.ci_actual
             zr  == c.zr2 - c.zi2 + c.cr_actual
             zr2 == MulFix(zr, zr)
             zi2 == MulFix(zi, zi)
             sum == IF a.stripes
                    THEN c.stripeSum + Sin2Fix((Atan2Fix(zi, zr) * a.stripeFrequency) \div FrequencyScale)
                    ELSE c.stripeSum
             i   == c.i + 1
             n   == [c EXCEPT !.zr = zr, !.zi = zi, !.zr2 = zr2, !.zi2 = zi2,
                              !.stripeSum = sum, !.i = i]
         IN  IF CapReached(i, a.maxIter)
             THEN IF a.innerCalculation
                  THEN [n EXCEPT !.pc = "done", !.exit = "cap",
                                 !.ret = [iteration |-> i,
                                          smoothIteration |-> SmoothIteration(i, zr2 + zi2),
                                          stripeSum |-> sum]]
                  ELSE [n EXCEPT !.pc = "done", !.exit = "cap", !.ret = Sentinel]
             ELSE n
    ELSE [c EXCEPT !.pc = "done", !.exit = "escape",
                   !.ret = IF c.i >= 1
                           THEN Sentinel
                           ELSE [iteration |-> c.i,
                                 smoothIteration |-> SmoothIteration(c.i, c.zr2 + c.zi2),
                                 stripeSum |-> c.stripeSum]]

\* one evaluation of the loop condition and, when it holds, of the body
cfPass(c, a) ==
    IF c.zr2 + c.zi2 < ESCAPE_RADIUS_SQUARED
    THEN LET zi1 == IF a.fractalType = 0 THEN MulFix(2 * c.zr, c.zi)
                    ELSE 2 * Abs(MulFix(c.zr, c.zi))
             zi  == zi1 + c.ci_actual
             zr  == c.zr2 - c.zi2 + c.cr_actual
             zr2 == MulFix(zr, zr)
             zi2 == MulFix(zi, zi)
             sum == IF a.stripes
                    THEN c.stripeSum + Sin2Fix((Atan2Fix(zi, zr) * a.stripeFrequency) \div FrequencyScale)
                    ELSE c.stripeSum
             i   == c.i + 1
             n   == [c EXCEPT !.zr = zr, !.zi = zi, !.zr2 = zr2, !.zi2 = zi2,
                              !.stripeSum = sum, !.i = i]
         IN  IF CapReached(i, a.maxIter)
             THEN IF a.innerCalculation
                  THEN [n EXCEPT !.pc = "done", !.exit = "cap",
                                 !.ret = [iteration |-> i,
                                          smoothIteration |-> SmoothIteration(i, zr2 + zi2),
                                          stripeSum |-> sum]]
                  ELSE [n EXCEPT !.pc = "done", !.exit = "cap", !.ret = Sentinel]
             ELSE n
    ELSE [c EXCEPT !.pc = "done", !.exit = "escape",
                   !.ret = [iteration |-> c.i,
                            smoothIteration |-> SmoothIteration(c.i, c.zr2 + c.zi2),
                            stripeSum |-> c.stripeSum]]

RECURSIVE cfRun(_, _, _)
\* the loop run for at most n passes from c (by halves, which keeps the
\* depth of the evaluation logarithmic in n)
cfRun(c, a, n) ==
    IF c.pc = "done" \/ n = 0 THEN c
    ELSE IF n = 1 THEN cfPass(c, a)
    ELSE cfRun(cfRun(c, a, n \div 2), a, n - n \div 2)

\* the call as a whole: the loop returns within maxIter + 1 evaluations of
\* its condition
calculateFractal(a) == cfRun(cfEnter(a), a, a.maxIter + 1).ret

(***************************************************************************)
(* Palettes and the colour mapper.                                         *)
(***************************************************************************)
PALETTES ==
    << \* classic blue-gold
       << <<66, 30, 15>>, <<25, 7, 26>>, <<9, 1, 47>>,
          <<4, 4, 73>>, <<0, 7, 100>>, <<12, 44, 138>>,
          <<24, 82, 177>>, <<57, 125, 209>>, <<134, 181, 229>>,
          <<211, 236, 248>>, <<241, 233, 191>>, <<248, 201, 95>>,
          <<255, 170, 0>>, <<204, 128, 0>>, <<153, 87, 0>> >>,
       \* fire
       << <<0, 0, 0>>, <<20, 0, 0>>, <<40, 0, 0>>,
          <<80, 0, 0>>, <<120, 20, 0>>, <<160, 40, 0>>,
          <<200, 80, 0>>, <<240, 120, 0>>, <<255, 160, 0>>,
          <<255, 200, 0>>, <<255, 240, 40>>, <<255, 255, 100>>,
          <<255, 255, 170>>, <<255, 255, 220>>, <<255, 255, 255>> >>,
       \* grayscale
       << <<0, 0, 0>>, <<32, 32, 32>>, <<64, 64, 64>>,
          <<96, 96, 96>>, <<128, 128, 128>>, <<160, 160, 160>>,
          <<192, 192, 192>>, <<224, 224, 224>>, <<255, 255, 255>> >>,
       \* ocean depths
       << <<3, 13, 30>>, <<6, 26, 48>>, <<9, 38, 67>>,
          <<17, 55, 92>>, <<25, 71, 116>>, <<33, 88, 140>>,
          <<41, 105, 165>>, <<50, 138, 193>>, <<64, 174, 224>>,
          <<110, 197, 233>>, <<158, 218, 241>>, <<198, 236, 248>>,
          <<214, 249, 255>>, <<225, 252, 255>>, <<240, 255, 255>> >>,
       \* arctic
       << <<15, 20, 40>>, <<20, 30, 65>>, <<30, 40, 90>>,
          <<40, 60, 120>>, <<65, 90, 150>>, <<95, 130, 180>>,
          <<135, 175, 205>>, <<175, 205, 225>>, <<200, 225, 240>>,
          <<220, 235, 245>>, <<230, 243, 250>>, <<240, 250, 253>>,
          <<245, 253, 255>>, <<250, 255, 255>>, <<255, 255, 255>> >> >>

\* palette[k] of a std::vector, k counted from 0
At(palette, k) == palette[k + 1]

\* What a build makes of a floating-point to integer conversion whose value
\* the target type cannot hold (undefined in C++): the instruction's answer for
\* NaN and for the infinities, as an int and as the low byte of an unsigned
\* conversion.
Builds ==
    { [name |-> "x86_64",  nanInt |-> INT_MIN, posInt |-> INT_MIN, negInt |-> INT_MIN, nanByte |-> 0],
      [name |-> "riscv64", nanInt |-> INT_MAX, posInt |-> INT_MAX, negInt |-> INT_MIN, nanByte |-> 255] }

\* static_cast<int>(iterations)
CastInt(x, b) ==
    IF x.k = "nan" THEN b.nanInt
    ELSE IF x.k = "inf" THEN (IF x.v > 0 THEN b.posInt ELSE b.negInt)
    ELSE Trunc(x.v)

RECURSIVE Pow2Mod(_, _)
\* 2^e mod m
Pow2Mod(e, m) == IF e = 0 THEN 1 % m ELSE (2 * Pow2Mod(e - 1, m)) % m

\* n % size with n an int and size a 64-bit size_t: n is converted to
\* size_t first, a negative n becoming 2^64 + n
UnsignedMod(n, size) ==
    IF n >= 0 THEN n % size
    ELSE ((n % size) + Pow2Mod(64, size)) % size

\* iterations - std::floor(iterations)
Fract(x) == IF x.k = "fin" THEN Fin(x.v % Scale) ELSE NaN

\* static_cast<sf::Uint8>(c1 + factor * (c2 - c1)) of one channel
Channel(c1, c2, factor, b) ==
    IF factor.k = "fin"
    THEN ((c1 * Scale + factor.v * (c2 - c1)) \div Scale) % 256
    ELSE b.nanByte

interpolateColors(c1, c2, factor, b) ==
    << Channel(c1[1], c2[1], factor, b),
       Channel(c1[2], c2[2], factor, b),
       Channel(c1[3], c2[3], factor, b) >>

\* info.stripeSum / info.iteration
StripeAverage(info) ==
    IF info.iteration = 0
    THEN (IF info.stripeSum = 0 THEN NaN ELSE Inf(1))
    ELSE Fin(info.stripeSum \div info.iteration)

\* a coloring scalar times a finite factor f
Times(x, f) ==
    IF x.k = "fin" THEN Fin(x.v * f)
    ELSE IF x.k = "nan" \/ f = 0 THEN NaN
    ELSE Inf(IF f > 0 THEN x.v ELSE -x.v)

\* the coloring scalar `iterations` of a result that is not the sentinel
ColoringScalar(info, st) ==
    IF st.stripes
    THEN Times(StripeAverage(info), st.stripeIntensity)
    ELSE LET t == Times(info.smoothIteration, st.colorDensity)
         IN  IF t.k = "fin" THEN Fin(t.v \div DensityScale) ELSE t

\* the index of the palette entry the scalar selects
PaletteIndex(iterations, palette, b) ==
    UnsignedMod(CastInt(iterations, b), Len(palette))

\* the colour of a result (the lines between the call of calculateFractal
\* and the write of the pixel)
MapColor(info, st, palette, b) ==
    IF info.iteration = -1 THEN <<0, 0, 0>>
    ELSE LET iterations == ColoringScalar(info, st)
             index == PaletteIndex(iterations, palette, b)
             fract == Fract(iterations)
         IN  interpolateColors(At(palette, index),
                               At(palette, (index + 1) % Len(palette)), fract, b)

\* PALETTES[state.colorScheme % PALETTES.size()]
PaletteOf(st) == At(PALETTES, UnsignedMod(st.colorScheme, Len(PALETTES)))

CfArgsOf(st, cr, ci) ==
    CfArgs(cr, ci, st.juliaX, st.juliaY, st.maxIterations, st.showJulia,
           st.fractalType, st.stripes, st.stripeFrequency, st.innerCalculation)

(***************************************************************************)
(* Pixel buffers.  A buffer of width * height * 4 bytes is a function on   *)
(* the byte indices; Unset is a byte of a new[] array not yet written.     *)
(***************************************************************************)
Unset == -1

NewBuffer(size) == [k \in 0 .. size - 1 |-> Unset]

\* a variant of StoreColor: the alpha byte is not stored
StoreColorNoAlpha(buf, idx, color) ==
    [k \in DOMAIN buf |->
        IF k = idx THEN color[1]
        ELSE IF k = idx + 1 THEN color[2]
        ELSE IF k = idx + 2 THEN color[3]
        ELSE buf[k]]

\* pixels[idx] = r, [idx+1] = g, [idx+2] = b, [idx+3] = 255
\* (a store outside the array is not kept in the buffer)
StoreColor(buf, idx, color) ==
    [k \in DOMAIN buf |->
        IF k = idx THEN color[1]
        ELSE IF k = idx + 1 THEN color[2]
        ELSE IF k = idx + 2 THEN color[3]
        ELSE IF k = idx + 3 THEN 255
        ELSE buf[k]]

\* the complex coordinate renderFractalRegion samples for pixel (x, y)
PixelCoord(st, x, y, width) ==
    LET pixelSize == st.viewportSize \div width
        halfSize  == st.viewportSize \div 2
    IN  [cr |-> st.viewportX - halfSize + x * pixelSize,
         ci |-> st.viewportY - halfSize + y * pixelSize]

\* the colour renderFractalRegion computes for pixel (x, y)
RegionColor(st, x, y, width, b) ==
    LET c == PixelCoord(st, x, y, width)
    IN  MapColor(calculateFractal(CfArgsOf(st, c.cr, c.ci)), st, PaletteOf(st), b)

\* a variant of PreviewColor: ci taken from x and cr from y
PreviewColorTransposed(st, x, y, width, b) ==
    LET pixelSize == st.viewportSize \div width
        halfSize  == st.viewportSize \div 2
        ci == st.viewportY - halfSize + x * pixelSize
        cr == st.viewportX - halfSize + y * pixelSize
    IN  MapColor(calculateFractal(CfArgsOf(st, cr, ci)), st, PaletteOf(st), b)

\* the colour renderPreview computes for the block whose top-left is (x, y)
PreviewColor(st, x, y, width, b) ==
    LET pixelSize == st.viewportSize \div width
        halfSize  == st.viewportSize \div 2
        ci == st.viewportY - halfSize + y * pixelSize
        cr == st.viewportX - halfSize + x * pixelSize
    IN  MapColor(calculateFractal(CfArgsOf(st, cr, ci)), st, PaletteOf(st), b)

\* a variant of PixelIndex: x and y exchanged
PixelIndexTransposed(x, y, width) == (x * width + y) * 4

\* int pixelIndex = (y * width + x) * 4
PixelIndex(x, y, width) == (y * width + x) * 4

(***************************************************************************)
(* State.                                                                  *)
(***************************************************************************)
VARIABLES
    build,        \* the build's out-of-range conversions (one of Builds)
    NUM_THREADS,  \* std::thread::hardware_concurrency(), or 8
    state,        \* main's RenderState
    hiResState,   \* saveHighResScreenshot's copy of the state
    pixels,       \* main's pixel buffer
    hiResPixels,  \* saveHighResScreenshot's buffer (<<>> while not allocated)
    call,         \* the render call in progress on the main thread
    threads,      \* the std::vector<std::thread> of the call in progress
    written,      \* the pixels <<x, y>> stored since the call began
    stray,        \* the byte indices stored outside the buffer since the call began
    origin,       \* which renderer last filled pixels and the texture
    texture,      \* the sf::Texture the window shows
    saved,        \* the last image written to a file
    pc,           \* where the main thread is
    loop,         \* main's locals of the event loop
    scrollTimer,  \* whether scrollTimer's elapsed time exceeds SCROLL_RENDER_DELAY
    budget,       \* the number of events still to come
    cfa,          \* the arguments of a call of calculateFractal, or of the colour
                  \* mapper, run on its own
    cf            \* the locals of that call

vars == <<build, NUM_THREADS, state, hiResState, pixels, hiResPixels, call, threads,
          written, stray, origin, texture, saved, pc, loop, scrollTimer, budget, cfa, cf>>

\* struct RenderState's default member initializers
DefaultState ==
    [viewportX |-> -(Scale \div 2), viewportY |-> 0, viewportSize |-> 3 * Scale,
     maxIterations |-> 128, colorDensity |-> (2 * DensityScale) \div 10,
     showJulia |-> FALSE,
     juliaX |-> (-8 * Scale) \div 10, juliaY |-> (156 * Scale) \div 1000,
     colorScheme |-> 0, autoIterations |-> TRUE, fractalType |-> 0,
     stripes |-> TRUE, stripeFrequency |-> 5 * FrequencyScale,
     stripeIntensity |-> 10, innerCalculation |-> FALSE]

NoCall ==
    [phase |-> "idle", target |-> "pixels", width |-> 0, height |-> 0,
     downscale |-> 0, scale |-> 0, i |-> 0, x |-> 0, y |-> 0]

\* the buffer a call writes and the state its renderers read by reference
Target == IF call.target = "hiRes" THEN hiResPixels ELSE pixels
RefState == IF call.target = "hiRes" THEN hiResState ELSE state

(***************************************************************************)
(* renderFractalRegion: one pass of the inner loop, the two loops from a   *)
(* position on, and the call as a whole.                                   *)
(***************************************************************************)
\* the body of the for-x loop at (x, y)
RegionPixel(buf, st, x, y, width, b) ==
    StoreColor(buf, PixelIndex(x, y, width), RegionColor(st, x, y, width, b))

\* the position after (x, y): x++, and y++ with x = 0 at the end of a row
RegionAdvance(x, y, width) ==
    IF x + 1 < width THEN [x |-> x + 1, y |-> y] ELSE [x |-> 0, y |-> y + 1]

RECURSIVE RegionLoop(_, _, _, _, _, _, _)
RegionLoop(buf, st, x, y, endY, width, b) ==
    IF y >= endY \/ width <= 0 THEN buf
    ELSE LET n == RegionAdvance(x, y, width)
         IN  RegionLoop(RegionPixel(buf, st, x, y, width, b), st, n.x, n.y, endY, width, b)

renderFractalRegion(buf, st, startY, endY, width, height, b) ==
    RegionLoop(buf, st, 0, startY, endY, width, b)

(***************************************************************************)
(* renderFractal and the render of saveHighResScreenshot: the bands, the   *)
(* spawn loop, the workers, the join loop.                                 *)
(***************************************************************************)
\* int linesPerThread = height / NUM_THREADS
LinesPerThread(height, n) == height \div n

\* a variant of BandStart: every band but the first starts one row late
BandStartShifted(i, height, n) == i * LinesPerThread(height, n) + (IF i > 0 THEN 1 ELSE 0)

\* int startY = i * linesPerThread
BandStart(i, height, n) == i * LinesPerThread(height, n)

\* a variant of BandEnd: the last band does not absorb the remainder
BandEndNoRemainder(i, height, n) == (i + 1) * LinesPerThread(height, n)

\* int endY = (i == NUM_THREADS - 1) ? height : (i + 1) * linesPerThread
BandEnd(i, height, n) ==
    IF i = n - 1 THEN height ELSE (i + 1) * LinesPerThread(height, n)

\* a thread has run to the end of renderFractalRegion
Finished(t) == t.y >= t.endY

\* one pass of the spawn loop: threads.emplace_back(renderFractalRegion, ...)
Spawn ==
    /\ call.phase = "spawn"
    /\ call.i < NUM_THREADS
    /\ threads' = Append(threads,
                     [startY |-> BandStart(call.i, call.height, NUM_THREADS),
                      endY   |-> BandEnd(call.i, call.height, NUM_THREADS),
                      x |-> 0,
                      y |-> BandStart(call.i, call.height, NUM_THREADS)])
    /\ call' = [call EXCEPT !.i = call.i + 1]
    /\ UNCHANGED <<build, NUM_THREADS, state, hiResState, pixels, hiResPixels,
                   written, stray, origin, texture, saved, pc, loop, scrollTimer,
                   budget, cfa, cf>>

\* the spawn loop ends: the join loop starts at the first thread
SpawnDone ==
    /\ call.phase = "spawn"
    /\ call.i >= NUM_THREADS
    /\ call' = [call EXCEPT !.phase = "join", !.i = 0]
    /\ UNCHANGED <<build, NUM_THREADS, state, hiResState, pixels, hiResPixels, threads,
                   written, stray, origin, texture, saved, pc, loop, scrollTimer,
                   budget, cfa, cf>>

\* the stores of a renderer into the call's buffer
StoreTarget(buf) ==
    /\ pixels' = IF call.target = "hiRes" THEN pixels ELSE buf
    /\ hiResPixels' = IF call.target = "hiRes" THEN buf ELSE hiResPixels

\* thread w computes and stores one pixel of its band
WorkerStep(w) ==
    /\ w \in 1 .. Len(threads)
    /\ ~Finished(threads[w])
    /\ LET t == threads[w]
           n == RegionAdvance(t.x, t.y, call.width)
           idx == PixelIndex(t.x, t.y, call.width)
       IN  /\ StoreTarget(RegionPixel(Target, RefState, t.x, t.y, call.width, build))
           /\ threads' = [threads EXCEPT ![w] = [t EXCEPT !.x = n.x, !.y = n.y]]
           /\ written' = written \cup {<<t.x, t.y>>}
           /\ stray' = stray \cup ({idx, idx + 1, idx + 2, idx + 3} \ DOMAIN Target)
    /\ UNCHANGED <<build, NUM_THREADS, state, hiResState, call, origin, texture, saved,
                   pc, loop, scrollTimer, budget, cfa, cf>>

\* a variant of JoinReady: the join loop does not wait for the thread
JoinReadyNoWait(i) == TRUE

\* thread.join() returns for the thread the join loop is at
JoinReady(i) == Finished(threads[i + 1])

Join ==
    /\ call.phase = "join"
    /\ call.i < Len(threads)
    /\ JoinReady(call.i)
    /\ call' = [call EXCEPT !.i = call.i + 1]
    /\ UNCHANGED <<build, NUM_THREADS, state, hiResState, pixels, hiResPixels, threads,
                   written, stray, origin, texture, saved, pc, loop, scrollTimer,
                   budget, cfa, cf>>

\* the join loop ends and the render returns to its caller
JoinDone ==
    /\ call.phase = "join"
    /\ call.i >= Len(threads)
    /\ call' = [call EXCEPT !.phase = "returned"]
    /\ origin' = [origin EXCEPT ![call.target] = "full"]
    /\ UNCHANGED <<build, NUM_THREADS, state, hiResState, pixels, hiResPixels, threads,
                   written, stray, texture, saved, pc, loop, scrollTimer,
                   budget, cfa, cf>>

(***************************************************************************)
(* renderPreview.                                                          *)
(***************************************************************************)
\* a variant of BlockCells: the fill loops are not clipped at the buffer's edges
BlockCellsUnclipped(x, y, width, height, downscale) ==
    { <<x + bx, y + by>> : bx \in 0 .. downscale - 1, by \in 0 .. downscale - 1 }

\* the pixels <<x + bx, y + by>> the two fill loops visit for the block at (x, y)
BlockCells(x, y, width, height, downscale) ==
    { <<x + bx, y + by>> : bx \in { d \in 0 .. downscale - 1 : x + d < width },
                           by \in { d \in 0 .. downscale - 1 : y + d < height } }

\* the buffer after the fill loops stored color, and 255, at every cell
FillBlock(buf, cells, width, color) ==
    LET hit == { PixelIndex(c[1], c[2], width) \div 4 : c \in cells }
    IN  [k \in DOMAIN buf |->
            IF (k \div 4) \in hit
            THEN (IF k % 4 = 3 THEN 255 ELSE color[(k % 4) + 1])
            ELSE buf[k]]

\* the byte indices the fill loops store to
BlockBytes(cells, width) ==
    UNION { PixelIndex(c[1], c[2], width) .. PixelIndex(c[1], c[2], width) + 3 : c \in cells }

\* the block origin after (x, y): x += downscale, and y += downscale with
\* x = 0 at the end of a row of blocks
PreviewAdvance(x, y, width, downscale) ==
    IF x + downscale < width THEN [x |-> x + downscale, y |-> y]
    ELSE [x |-> 0, y |-> y + downscale]

\* one pass of the for-x loop: the sample at the block's top-left and the fill
PreviewStep ==
    /\ call.phase = "preview"
    /\ call.y < call.height
    /\ LET cells == BlockCells(call.x, call.y, call.width, call.height, call.downscale)
           color == PreviewColor(RefState, call.x, call.y, call.width, build)
           n == PreviewAdvance(call.x, call.y, call.width, call.downscale)
       IN  /\ StoreTarget(FillBlock(Target, cells, call.width, color))
           /\ written' = written \cup { c \in cells : BlockBytes({c}, call.width) \subseteq DOMAIN Target }
           /\ stray' = stray \cup (BlockBytes(cells, call.width) \ DOMAIN Target)
           /\ call' = [call EXCEPT !.x = n.x, !.y = n.y]
    /\ UNCHANGED <<build, NUM_THREADS, state, hiResState, threads, origin, texture, saved,
                   pc, loop, scrollTimer, budget, cfa, cf>>

\* the for-y loop ends and renderPreview returns
PreviewDone ==
    /\ call.phase = "preview"
    /\ call.y >= call.height
    /\ call' = [call EXCEPT !.phase = "returned"]
    /\ origin' = [origin EXCEPT ![call.target] = "preview"]
    /\ UNCHANGED <<build, NUM_THREADS, state, hiResState, pixels, hiResPixels, threads,
                   written, stray, texture, saved, pc, loop, scrollTimer,
                   budget, cfa, cf>>

\* the call renderFractal(pixels, state, width, height, preview) as it begins
RenderCall(width, height, preview) ==
    [NoCall EXCEPT !.phase = IF preview THEN "preview" ELSE "spawn",
                   !.width = width, !.height = height,
                   !.downscale = IF preview THEN PREVIEW_DOWNSCALE ELSE 0]

(***************************************************************************)
(* saveHighResScreenshot.                                                  *)
(***************************************************************************)
ExportCall(width, height, scale) ==
    [NoCall EXCEPT !.phase = "export", !.width = width, !.height = height,
                   !.scale = scale]

\* a variant of ExportBegin: the copy's viewportSize is multiplied by the scale
ExportBeginScaled ==
    /\ call.phase = "export"
    /\ LET hiResWidth == call.width * call.scale
           hiResHeight == call.height * call.scale
       IN  /\ hiResPixels' = NewBuffer(hiResWidth * hiResHeight * 4)
           /\ hiResState' = [state EXCEPT !.viewportSize = state.viewportSize * call.scale]
           /\ call' = [call EXCEPT !.phase = "spawn", !.target = "hiRes",
                                   !.width = hiResWidth, !.height = hiResHeight]
    /\ threads' = <<>>
    /\ written' = {}
    /\ stray' = {}
    /\ origin' = [origin EXCEPT !.hiRes = "unset"]
    /\ UNCHANGED <<build, NUM_THREADS, state, pixels, texture, saved, pc, loop,
                   scrollTimer, budget, cfa, cf>>

\* the buffer is allocated, the state copied, the spawn loop reached
ExportBegin ==
    /\ call.phase = "export"
    /\ LET hiResWidth == call.width * call.scale
           hiResHeight == call.height * call.scale
       IN  /\ hiResPixels' = NewBuffer(hiResWidth * hiResHeight * 4)
           /\ hiResState' = [state EXCEPT !.viewportSize = state.viewportSize]
           /\ call' = [call EXCEPT !.phase = "spawn", !.target = "hiRes",
                                   !.width = hiResWidth, !.height = hiResHeight]
    /\ threads' = <<>>
    /\ written' = {}
    /\ stray' = {}
    /\ origin' = [origin EXCEPT !.hiRes = "unset"]
    /\ UNCHANGED <<build, NUM_THREADS, state, pixels, texture, saved, pc, loop,
                   scrollTimer, budget, cfa, cf>>

\* after the join loop: the image is created from the buffer and saved, the
\* buffer freed, and the handler of the H key returns to the event loop
ExportSave ==
    /\ call.phase = "returned"
    /\ call.target = "hiRes"
    /\ saved' = [key |-> "H", image |-> hiResPixels, origin |-> origin.hiRes,
                 width |-> call.width, height |-> call.height]
    /\ hiResPixels' = <<>>
    /\ call' = [call EXCEPT !.phase = "idle"]
    /\ pc' = IF pc = "export" THEN "poll" ELSE pc
    /\ UNCHANGED <<build, NUM_THREADS, state, hiResState, pixels, threads, written,
                   stray, origin, texture, loop, scrollTimer, budget, cfa, cf>>

(***************************************************************************)
(* The render calls on their own: any of renderFractal (full resolution),  *)
(* renderPreview and saveHighResScreenshot, called once on a sample state  *)
(* with any buffer size within the bounds.                                 *)
(***************************************************************************)
\* the viewport of the 4x4 scenario: stripes off, 128 iterations
ScenarioState == [DefaultState EXCEPT !.stripes = FALSE]

\* the state of the program's first render: adjustIterations(state) applied
StartState == [DefaultState EXCEPT !.maxIterations = 100]

\* the sample states of the render harness

\* Julia mode after seven zoom-out steps: the corners lie beyond the escape radius
JuliaFarState ==
    [StartState EXCEPT !.showJulia = TRUE, !.viewportSize = 3 * Scale * 2 ^ 7]

\* the folded type after one zoom-in step, third palette, stripe intensity
\* brought below zero by the B key
FoldedState ==
    [StartState EXCEPT !.fractalType = 1, !.viewportSize = (3 * Scale) \div 2,
                       !.colorScheme = 2, !.stripeIntensity = -3]

SampleStates == {ScenarioState, JuliaFarState, FoldedState}

NoOrigin == [pixels |-> "unset", hiRes |-> "unset", texture |-> "unset"]
NoSaved == [key |-> "none", image |-> <<>>, origin |-> "unset", width |-> 0, height |-> 0]
NoLoop ==
    [isDragging |-> FALSE, viewChanged |-> FALSE, pendingHighQualityRender |-> FALSE,
     needsRedraw |-> FALSE, usePreview |-> FALSE, windowOpen |-> TRUE,
     lastMousePos |-> <<0, 0>>, currentMousePos |-> <<0, 0>>,
     mouseComplexX |-> 0, mouseComplexY |-> 0]
NoCf == [pc |-> "idle"]

\* the calls the harness makes
HarnessCalls ==
    { RenderCall(w, h, FALSE) : w \in 1 .. MaxWidth, h \in 0 .. MaxHeight }
    \cup { RenderCall(4, 4, FALSE) }
    \cup { [RenderCall(w, h, TRUE) EXCEPT !.downscale = d] :
             w \in 1 .. MaxWidth, h \in 0 .. MaxHeight,
             d \in (1 .. MaxDownscale) \cup {PREVIEW_DOWNSCALE} }
    \cup { c \in { ExportCall(w, h, k) : w \in 1 .. MaxWidth, h \in 0 .. MaxHeight,
                                         k \in 1 .. MaxScale } :
             c.width * c.scale <= MaxWidth /\ c.height * c.scale <= MaxHeight }

InitRender ==
    /\ build \in Builds
    /\ state \in SampleStates
    /\ hiResState = DefaultState
    /\ call \in HarnessCalls
    /\ NUM_THREADS \in (IF call.phase = "preview" THEN {1} ELSE 1 .. MaxThreads)
    /\ pixels = NewBuffer(IF call.phase = "export" THEN 0 ELSE call.width * call.height * 4)
    /\ hiResPixels = <<>>
    /\ threads = <<>>
    /\ written = {}
    /\ stray = {}
    /\ origin = NoOrigin
    /\ texture = <<>>
    /\ saved = NoSaved
    /\ pc = "harness"
    /\ loop = NoLoop
    /\ scrollTimer = FALSE
    /\ budget = 0
    /\ cfa = NoCf
    /\ cf = NoCf

NextRender ==
    \/ Spawn
    \/ SpawnDone
    \/ \E w \in 1 .. MaxThreads : WorkerStep(w)
    \/ Join
    \/ JoinDone
    \/ PreviewStep
    \/ PreviewDone
    \/ ExportBegin
    \/ ExportSave

SpecRender == InitRender /\ [][NextRender]_vars

(***************************************************************************)
(* Properties of the render calls.                                         *)
(***************************************************************************)
\* the call in progress was a full-resolution render and has returned
FullReturned == call.phase = "returned" /\ origin[call.target] = "full"

\* the call in progress was renderPreview and has returned
PreviewReturned == call.phase = "returned" /\ origin[call.target] = "preview"

\* the buffer one call of renderFractalRegion over rows [0, height) leaves
OneCallImage ==
    renderFractalRegion(NewBuffer(call.width * call.height * 4), RefState,
                        0, call.height, call.width, call.height, build)

\* the rows of thread w's band
Rows(w) == threads[w].startY .. threads[w].endY - 1

\* C1: when a full-resolution render returns, the buffer holds the bytes that
\* one call of renderFractalRegion over rows [0, height) leaves, whatever the
\* number of bands and the interleaving of the workers.
C1_BandCountIndependent == FullReturned => Target = OneCallImage

\* the 4x4 scenario rendered as the two bands [0,2) and [2,4)
C1_Witness ==
    /\ FullReturned /\ state = ScenarioState
    /\ call.width = 4 /\ call.height = 4 /\ NUM_THREADS = 2
    /\ Rows(1) = 0 .. 1 /\ Rows(2) = 2 .. 3
    /\ \E k \in DOMAIN pixels : k % 4 # 3 /\ pixels[k] # 0

\* C2: once the spawn loop has ended there is one band per worker, the bands
\* are contiguous from row 0 to row height, pairwise disjoint, cover
\* [0, height), and every band but the last has height / N rows.
C2_BandsPartition ==
    call.phase \in {"join", "returned"} /\ origin[call.target] # "preview" =>
        /\ Len(threads) = NUM_THREADS
        /\ threads[1].startY = 0
        /\ threads[NUM_THREADS].endY = call.height
        /\ \A w \in 1 .. NUM_THREADS : threads[w].startY <= threads[w].endY
        /\ \A w \in 1 .. NUM_THREADS - 1 :
              /\ threads[w].endY = threads[w + 1].startY
              /\ threads[w].endY - threads[w].startY = call.height \div NUM_THREADS
        /\ \A v, w \in 1 .. NUM_THREADS : v # w => Rows(v) \cap Rows(w) = {}
        /\ UNION { Rows(w) : w \in 1 .. NUM_THREADS } = 0 .. call.height - 1

\* a height the worker count does not divide
C2_Witness ==
    /\ call.phase = "join" /\ NUM_THREADS = 2 /\ call.height = 3
    /\ Rows(1) = {0} /\ Rows(2) = {1, 2}

\* C3: a full-resolution render that has returned has spawned exactly one
\* worker per band and every worker has finished.
C3_ForkJoin ==
    FullReturned =>
        /\ Len(threads) = NUM_THREADS
        /\ \A w \in 1 .. Len(threads) :
              /\ threads[w].startY = BandStart(w - 1, call.height, NUM_THREADS)
              /\ threads[w].endY = BandEnd(w - 1, call.height, NUM_THREADS)
              /\ Finished(threads[w])

\* a returned render whose two workers both had rows to render
C3_Witness ==
    /\ FullReturned /\ NUM_THREADS = 2 /\ Len(threads) = 2
    /\ Rows(1) # {} /\ Rows(2) # {} /\ written # {}

\* C4: when a render call returns, every pixel of the buffer has been stored
\* by that call, no byte is left unset and every alpha byte is 255.
C4_FullyPopulated ==
    call.phase = "returned" =>
        /\ written = (0 .. call.width - 1) \X (0 .. call.height - 1)
        /\ \A k \in DOMAIN Target : Target[k] \in 0 .. 255
        /\ \A k \in DOMAIN Target : k % 4 = 3 => Target[k] = 255

C4_Witness ==
    /\ PreviewReturned /\ call.width = 3 /\ call.height = 2 /\ call.downscale = 2
    /\ Target[3] = 255

\* C5: a step of a worker changes only bytes of pixels in the rows of its own
\* band, stores nothing outside the buffer, and leaves the viewport state as
\* it was.
C5_RegionFrame ==
    [][\A w \in 1 .. Len(threads) :
          (Len(threads') >= w /\ threads'[w] # threads[w]) =>
              /\ state' = state
              /\ hiResState' = hiResState
              /\ stray' = stray
              /\ DOMAIN Target' = DOMAIN Target
              /\ \A k \in DOMAIN Target :
                    Target'[k] # Target[k] => ((k \div 4) \div call.width) \in Rows(w)]_vars

\* the second worker has finished its band while the rows of the first are
\* still unset
C5_Witness ==
    /\ Len(threads) = 2 /\ Rows(1) # {} /\ Rows(2) # {}
    /\ Finished(threads[2]) /\ threads[1].y = threads[1].startY /\ threads[1].x = 0
    /\ \A k \in DOMAIN Target :
          Target[k] = Unset <=> ((k \div 4) \div call.width) \in Rows(1)

\* C6: renderPreview with block size 1 leaves the buffer that one call of
\* renderFractalRegion over rows [0, height) leaves.
C6_PreviewBlockOne ==
    PreviewReturned /\ call.downscale = 1 => Target = OneCallImage

C6_Witness ==
    /\ PreviewReturned /\ call.downscale = 1 /\ call.width = 3 /\ call.height = 2
    /\ \E j, k \in DOMAIN Target : j % 4 = k % 4 /\ Target[j] # Target[k]

\* C7: after renderPreview every pixel (x, y) holds the colour of the sample at
\* its block's top-left (x - x mod blockSize, y - y mod blockSize) with alpha
\* 255, and nothing was stored outside the buffer.
C7_PreviewBlocks ==
    PreviewReturned =>
        /\ stray = {}
        /\ DOMAIN Target = 0 .. call.width * call.height * 4 - 1
        /\ \A x \in 0 .. call.width - 1, y \in 0 .. call.height - 1 :
              LET color == PreviewColor(RefState, x - (x % call.downscale),
                                        y - (y % call.downscale), call.width, build)
                  idx == (y * call.width + x) * 4
              IN  <<Target[idx], Target[idx + 1], Target[idx + 2], Target[idx + 3]>>
                    = <<color[1], color[2], color[3], 255>>

\* blocks of 2 in a 3x3 buffer: the right and bottom blocks are clipped
C7_Witness ==
    /\ PreviewReturned /\ call.downscale = 2 /\ call.width = 3 /\ call.height = 3
    /\ written = (0 .. 2) \X (0 .. 2)

(***************************************************************************)
(* calculateFractal on its own, one evaluation of the loop condition (and  *)
(* of the body) per step, for points on the half-unit grid and the caps at *)
(* the ends of the range [100, 10000].                                     *)
(***************************************************************************)
IterCaps == {100, 101, 10000}

\* the half-unit grid, and one point at the escape radius itself
IterPoints ==
    { k * (Scale \div 2) : k \in -2 * MaxCoord .. 2 * MaxCoord } \cup {100 * Scale}

IterArgs ==
    { CfArgs(cr, ci, DefaultState.juliaX, DefaultState.juliaY, m, j, t, TRUE,
             DefaultState.stripeFrequency, n) :
        cr \in IterPoints, ci \in {0, Scale \div 2, 2 * Scale}, m \in IterCaps,
        j \in BOOLEAN, t \in {0, 1}, n \in BOOLEAN }

InitIter ==
    /\ cfa \in IterArgs
    /\ cf = cfEnter(cfa)
    /\ build \in {CHOOSE b \in Builds : b.name = "x86_64"}
    /\ NUM_THREADS = 1
    /\ state = DefaultState
    /\ hiResState = DefaultState
    /\ call = NoCall
    /\ pixels = <<>>
    /\ hiResPixels = <<>>
    /\ threads = <<>>
    /\ written = {}
    /\ stray = {}
    /\ origin = NoOrigin
    /\ texture = <<>>
    /\ saved = NoSaved
    /\ pc = "harness"
    /\ loop = NoLoop
    /\ scrollTimer = FALSE
    /\ budget = 0

\* the loop condition is evaluated and, when it holds, the body runs once
Pass ==
    /\ cf.pc = "loop"
    /\ cf' = cfPass(cf, cfa)
    /\ UNCHANGED <<build, NUM_THREADS, state, hiResState, pixels, hiResPixels, call,
                   threads, written, stray, origin, texture, saved, pc, loop,
                   scrollTimer, budget, cfa>>

NextIter == Pass

SpecIter == InitIter /\ [][NextIter]_vars

\* a thread that is in the loop goes on running
SpecIterFair == SpecIter /\ WF_vars(Pass)

\* C10: the loop is left, with at most maxIter passes made and never more, through
\* the escape test or through the cap test (or was never entered, a bailout
\* test having matched).
C10_LoopTerminates ==
    /\ [](cf.i <= cfa.maxIter)
    /\ <>(/\ cf.pc = "done"
          /\ cf.exit \in {"escape", "cap", "bailout"}
          /\ (cf.exit = "cap" => cf.i = cfa.maxIter)
          /\ (cf.exit = "escape" => cf.zr2 + cf.zi2 >= ESCAPE_RADIUS_SQUARED)
          /\ (cf.exit = "bailout" => cf.i = 0))

\* an orbit that stays inside until the largest cap
C10_Witness ==
    cf.pc = "done" /\ cf.exit = "cap" /\ cf.i = 10000 /\ cfa.maxIter = 10000

\* the orbit has left the escape radius: the loop condition is false
Outside == cf.zr2 + cf.zi2 >= ESCAPE_RADIUS_SQUARED

\* C11: a result returned through the escape exit has iteration # -1 and
\* iteration < maxIter; and a call that ends with the orbit outside the radius
\* before pass maxIter has returned through the escape exit, never the sentinel.
C11_EscapedBelowCap ==
    /\ cf.pc = "done" /\ cf.exit = "escape" =>
          /\ cf.ret.iteration # -1
          /\ cf.ret.iteration = cf.i
          /\ cf.ret.iteration < cfa.maxIter
    /\ cf.pc = "done" /\ Outside /\ cf.i < cfa.maxIter =>
          cf.exit = "escape" /\ cf.ret # Sentinel

\* c = (2, 2), Mandelbrot mode, has escaped after a pass or more
C11_Witness ==
    /\ cf.pc = "done" /\ cf.exit = "escape" /\ ~cfa.isJulia
    /\ cfa.cr = 2 * Scale /\ cfa.ci = 2 * Scale
    /\ cf.ret.iteration >= 1

\* C12: a call that returned through the escape exit with iteration k under cap
\* m1 returns, for every larger cap m2 and the other arguments equal, a result
\* that is not the sentinel, lies below m2 and has the same iteration k.
C12_CapMonotone ==
    cf.pc = "done" /\ cf.exit = "escape" =>
        \A m2 \in { m \in IterCaps : m > cfa.maxIter } :
            LET r2 == calculateFractal([cfa EXCEPT !.maxIter = m2])
            IN  r2.iteration = cf.ret.iteration /\ r2.iteration # -1 /\ r2.iteration < m2

\* an orbit that escaped after several passes under the smallest cap
C12_Witness ==
    /\ cf.pc = "done" /\ cf.exit = "escape" /\ cfa.maxIter = 100
    /\ cf.ret.iteration >= 3
    /\ calculateFractal([cfa EXCEPT !.maxIter = 10000]).iteration = cf.ret.iteration

(***************************************************************************)
(* main: the start of the program and the event loop.                      *)
(***************************************************************************)
\* static_cast<int>(100 * log10(1 + zoomFactor)) with zoomFactor = 3.0 / size
AutoIterations(viewportSize, b) ==
    LET zoomFactor == IF viewportSize = 0 THEN Inf(1)
                      ELSE Fin((3 * Scale * Scale) \div viewportSize)
        log10 == IF zoomFactor.k = "fin"
                 THEN Fin((Log2Fix(Scale + zoomFactor.v) * 1000) \div 3322)
                 ELSE zoomFactor
    IN  CastInt(Times(log10, 100), b)

Min(a, b) == IF a < b THEN a ELSE b
Max(a, b) == IF a > b THEN a ELSE b

\* a variant of adjustIterations: the result is not clamped
adjustIterationsUnclamped(st, b) ==
    IF st.autoIterations
    THEN [st EXCEPT !.maxIterations = AutoIterations(st.viewportSize, b)]
    ELSE st

\* a variant of adjustIterations: the cap is never recomputed
adjustIterationsOnce(st, b) == st

\* a variant of adjustIterations: the autoIterations flag is not tested
adjustIterationsAlways(st, b) ==
    [st EXCEPT !.maxIterations = Max(100, Min(10000, AutoIterations(st.viewportSize, b)))]

\* void adjustIterations(RenderState& state)
adjustIterations(st, b) ==
    IF st.autoIterations
    THEN [st EXCEPT !.maxIterations = Max(100, Min(10000, AutoIterations(st.viewportSize, b)))]
    ELSE st

\* sf::Mouse::getPosition(window): a pixel of the window, or a point outside
MousePositions ==
    ((0 .. WINDOW_WIDTH - 1) \X (0 .. WINDOW_HEIGHT - 1)) \cup {<<-1, -1>>}

InWindow(m) ==
    m[1] >= 0 /\ m[1] < WINDOW_WIDTH /\ m[2] >= 0 /\ m[2] < WINDOW_HEIGHT

\* the complex coordinate under a window position
MouseComplexX(st, m) ==
    st.viewportX - st.viewportSize \div 2 + (m[1] * st.viewportSize) \div WINDOW_WIDTH
MouseComplexY(st, m) ==
    st.viewportY - st.viewportSize \div 2 + (m[2] * st.viewportSize) \div WINDOW_HEIGHT

\* x * zoomFactor for zoomFactor 0.5 (zoom in) or 2.0
Zoomed(x, zoomIn) == IF zoomIn THEN x \div 2 ELSE x * 2

Init ==
    /\ build \in Builds
    /\ NUM_THREADS \in 1 .. MaxThreads
    /\ state = DefaultState
    /\ hiResState = DefaultState
    /\ pixels = NewBuffer(WINDOW_WIDTH * WINDOW_HEIGHT * 4)
    /\ hiResPixels = <<>>
    /\ call = NoCall
    /\ threads = <<>>
    /\ written = {}
    /\ stray = {}
    /\ origin = NoOrigin
    /\ texture = NewBuffer(WINDOW_WIDTH * WINDOW_HEIGHT * 4)
    /\ saved = NoSaved
    /\ pc = "start"
    /\ loop = NoLoop
    /\ scrollTimer = FALSE
    /\ budget = MaxEvents
    /\ cfa = NoCf
    /\ cf = NoCf

\* main calls renderFractal(pixels, state, WINDOW_WIDTH, WINDOW_HEIGHT, preview)
BeginRender(preview) ==
    /\ call' = RenderCall(WINDOW_WIDTH, WINDOW_HEIGHT, preview)
    /\ threads' = <<>>
    /\ written' = {}
    /\ stray' = {}

\* adjustIterations(state) and the call of the initial render
Start ==
    /\ pc = "start"
    /\ state' = adjustIterations(state, build)
    /\ BeginRender(FALSE)
    /\ pc' = "initial_render"
    /\ UNCHANGED <<build, NUM_THREADS, hiResState, pixels, hiResPixels, origin, texture,
                   saved, loop, scrollTimer, budget, cfa, cf>>

\* the next pass of while (window.isOpen()), or the end of main
NextFrame == IF loop.windowOpen THEN "poll" ELSE "exit"
FrameLocals == [loop EXCEPT !.needsRedraw = FALSE, !.usePreview = FALSE]

\* the initial render has returned: texture.update(pixels), the tracking
\* variables, and the first pass of the main loop
InitialUpdate ==
    /\ pc = "initial_render"
    /\ call.phase = "returned"
    /\ texture' = pixels
    /\ origin' = [origin EXCEPT !.texture = origin.pixels]
    /\ call' = [call EXCEPT !.phase = "idle"]
    /\ loop' = NoLoop
    /\ scrollTimer' = FALSE
    /\ pc' = "poll"
    /\ UNCHANGED <<build, NUM_THREADS, state, hiResState, pixels, hiResPixels, threads,
                   written, stray, saved, budget, cfa, cf>>

\* what an event handler leaves alone
HandlerFrame ==
    /\ budget' = budget - 1
    /\ UNCHANGED <<build, NUM_THREADS, hiResState, pixels, hiResPixels, threads,
                   written, stray, origin, texture, pc, cfa, cf>>

\* a variant of Polling: events are handled wherever the main thread is
PollingAnywhere == budget > 0 /\ loop.windowOpen /\ pc # "start"

\* window.pollEvent(event) hands the loop an event: the main thread is at the
\* poll loop (a closed window has no events)
Polling == pc = "poll" /\ budget > 0 /\ loop.windowOpen

\* sf::Event::Closed
Closed ==
    /\ Polling
    /\ loop' = [loop EXCEPT !.windowOpen = FALSE]
    /\ UNCHANGED <<state, call, saved, scrollTimer>>
    /\ HandlerFrame

\* sf::Event::MouseWheelScrolled, the mouse at m, delta > 0 (zoom in) or not
MouseWheelScrolled(m, zoomIn) ==
    /\ Polling
    /\ IF InWindow(m)
       THEN LET mouseX == MouseComplexX(state, m)
                mouseY == MouseComplexY(state, m)
                moved == [state EXCEPT
                            !.viewportX = mouseX + Zoomed(state.viewportX - mouseX, zoomIn),
                            !.viewportY = mouseY + Zoomed(state.viewportY - mouseY, zoomIn),
                            !.viewportSize = Zoomed(state.viewportSize, zoomIn)]
            IN  /\ state' = adjustIterations(moved, build)
                /\ loop' = [loop EXCEPT !.needsRedraw = TRUE, !.usePreview = TRUE,
                                        !.viewChanged = TRUE]
                /\ scrollTimer' = FALSE
       ELSE UNCHANGED <<state, loop, scrollTimer>>
    /\ UNCHANGED <<call, saved>>
    /\ HandlerFrame

\* sf::Event::MouseButtonPressed, left button, the mouse at m
MouseButtonPressed(m) ==
    /\ Polling
    /\ loop' = [loop EXCEPT !.isDragging = TRUE, !.usePreview = TRUE, !.lastMousePos = m]
    /\ UNCHANGED <<state, call, saved, scrollTimer>>
    /\ HandlerFrame

\* sf::Event::MouseButtonReleased, left button
MouseButtonReleased ==
    /\ Polling
    /\ loop' = [loop EXCEPT !.isDragging = FALSE, !.pendingHighQualityRender = TRUE]
    /\ scrollTimer' = FALSE
    /\ UNCHANGED <<state, call, saved>>
    /\ HandlerFrame

\* sf::Event::MouseMoved, the mouse at m
MouseMoved(m) ==
    /\ Polling
    /\ LET tracked == [loop EXCEPT !.currentMousePos = m,
                                   !.mouseComplexX = MouseComplexX(state, m),
                                   !.mouseComplexY = MouseComplexY(state, m)]
           deltaX == ((loop.lastMousePos[1] - m[1]) * state.viewportSize) \div WINDOW_WIDTH
           deltaY == ((loop.lastMousePos[2] - m[2]) * state.viewportSize) \div WINDOW_HEIGHT
       IN  IF loop.isDragging
           THEN /\ state' = [state EXCEPT !.viewportX = state.viewportX + deltaX,
                                          !.viewportY = state.viewportY + deltaY]
                /\ loop' = [tracked EXCEPT !.lastMousePos = m, !.needsRedraw = TRUE,
                                           !.usePreview = TRUE, !.viewChanged = TRUE]
                /\ scrollTimer' = FALSE
           ELSE /\ loop' = tracked
                /\ UNCHANGED <<state, scrollTimer>>
    /\ UNCHANGED <<call, saved>>
    /\ HandlerFrame

\* the flags every key that changes the picture sets
Redraw == [loop EXCEPT !.needsRedraw = TRUE, !.viewChanged = FALSE,
                       !.pendingHighQualityRender = FALSE]

\* a variant of KeyState: the I and K keys leave autoIterations as it is
KeyStateKeepsAuto(key) ==
    CASE key = "R" -> adjustIterations([state EXCEPT !.viewportX = DefaultState.viewportX,
                                                     !.viewportY = DefaultState.viewportY,
                                                     !.viewportSize = DefaultState.viewportSize],
                                       build)
      [] key = "J" -> [state EXCEPT
                         !.juliaX = IF state.showJulia THEN @ ELSE loop.mouseComplexX,
                         !.juliaY = IF state.showJulia THEN @ ELSE loop.mouseComplexY,
                         !.showJulia = ~state.showJulia]
      [] key = "C" -> [state EXCEPT !.colorScheme = UnsignedMod(state.colorScheme + 1, Len(PALETTES))]
      [] key = "I" -> [state EXCEPT
                                    !.maxIterations = Min(10000, state.maxIterations * 2)]
      [] key = "K" -> [state EXCEPT
                                    !.maxIterations = Max(100, state.maxIterations \div 2)]
      [] key = "A" -> adjustIterations([state EXCEPT !.autoIterations = ~state.autoIterations], build)
      [] key = "Up" -> [state EXCEPT !.colorDensity = (state.colorDensity * 11) \div 10]
      [] key = "Down" -> [state EXCEPT !.colorDensity = (state.colorDensity * 10) \div 11]
      [] key = "T" -> [state EXCEPT !.fractalType = (state.fractalType + 1) % 2]
      [] key = "Z" -> [state EXCEPT !.stripes = ~state.stripes]
      [] key = "M" -> [state EXCEPT !.stripeFrequency = state.stripeFrequency + 1]
      [] key = "N" -> [state EXCEPT !.stripeFrequency = state.stripeFrequency - 1]
      [] key = "V" -> [state EXCEPT !.stripeIntensity = state.stripeIntensity + 1]
      [] key = "B" -> [state EXCEPT !.stripeIntensity = state.stripeIntensity - 1]

\* a variant of KeyState: the C key does not wrap colorScheme around
KeyStateNoWrap(key) ==
    CASE key = "R" -> adjustIterations([state EXCEPT !.viewportX = DefaultState.viewportX,
                                                     !.viewportY = DefaultState.viewportY,
                                                     !.viewportSize = DefaultState.viewportSize],
                                       build)
      [] key = "J" -> [state EXCEPT
                         !.juliaX = IF state.showJulia THEN @ ELSE loop.mouseComplexX,
                         !.juliaY = IF state.showJulia THEN @ ELSE loop.mouseComplexY,
                         !.showJulia = ~state.showJulia]
      [] key = "C" -> [state EXCEPT !.colorScheme = state.colorScheme + 1]
      [] key = "I" -> [state EXCEPT !.autoIterations = FALSE,
                                    !.maxIterations = Min(10000, state.maxIterations * 2)]
      [] key = "K" -> [state EXCEPT !.autoIterations = FALSE,
                                    !.maxIterations = Max(100, state.maxIterations \div 2)]
      [] key = "A" -> adjustIterations([state EXCEPT !.autoIterations = ~state.autoIterations], build)
      [] key = "Up" -> [state EXCEPT !.colorDensity = (state.colorDensity * 11) \div 10]
      [] key = "Down" -> [state EXCEPT !.colorDensity = (state.colorDensity * 10) \div 11]
      [] key = "T" -> [state EXCEPT !.fractalType = (state.fractalType + 1) % 2]
      [] key = "Z" -> [state EXCEPT !.stripes = ~state.stripes]
      [] key = "M" -> [state EXCEPT !.stripeFrequency = state.stripeFrequency + 1]
      [] key = "N" -> [state EXCEPT !.stripeFrequency = state.stripeFrequency - 1]
      [] key = "V" -> [state EXCEPT !.stripeIntensity = state.stripeIntensity + 1]
      [] key = "B" -> [state EXCEPT !.stripeIntensity = state.stripeIntensity - 1]

\* the state after a key that changes the state
KeyState(key) ==
    CASE key = "R" -> adjustIterations([state EXCEPT !.viewportX = DefaultState.viewportX,
                                                     !.viewportY = DefaultState.viewportY,
                                                     !.viewportSize = DefaultState.viewportSize],
                                       build)
      [] key = "J" -> [state EXCEPT
                         !.juliaX = IF state.showJulia THEN @ ELSE loop.mouseComplexX,
                         !.juliaY = IF state.showJulia THEN @ ELSE loop.mouseComplexY,
                         !.showJulia = ~state.showJulia]
      [] key = "C" -> [state EXCEPT !.colorScheme = UnsignedMod(state.colorScheme + 1, Len(PALETTES))]
      [] key = "I" -> [state EXCEPT !.autoIterations = FALSE,
                                    !.maxIterations = Min(10000, state.maxIterations * 2)]
      [] key = "K" -> [state EXCEPT !.autoIterations = FALSE,
                                    !.maxIterations = Max(100, state.maxIterations \div 2)]
      [] key = "A" -> adjustIterations([state EXCEPT !.autoIterations = ~state.autoIterations], build)
      [] key = "Up" -> [state EXCEPT !.colorDensity = (state.colorDensity * 11) \div 10]
      [] key = "Down" -> [state EXCEPT !.colorDensity = (state.colorDensity * 10) \div 11]
      [] key = "T" -> [state EXCEPT !.fractalType = (state.fractalType + 1) % 2]
      [] key = "Z" -> [state EXCEPT !.stripes = ~state.stripes]
      [] key = "M" -> [state EXCEPT !.stripeFrequency = state.stripeFrequency + 1]
      [] key = "N" -> [state EXCEPT !.stripeFrequency = state.stripeFrequency - 1]
      [] key = "V" -> [state EXCEPT !.stripeIntensity = state.stripeIntensity + 1]
      [] key = "B" -> [state EXCEPT !.stripeIntensity = state.stripeIntensity - 1]

StateKeys == {"R", "J", "C", "I", "K", "A", "Up", "Down", "T", "Z", "M", "N", "V", "B"}

\* sf::Event::KeyPressed with one of the keys that change the state
KeyPressed(key) ==
    /\ Polling
    /\ key \in StateKeys
    /\ state' = KeyState(key)
    /\ loop' = IF key = "A" /\ state.autoIterations THEN loop ELSE Redraw
    /\ UNCHANGED <<call, saved, scrollTimer>>
    /\ HandlerFrame

\* the S key: saveScreenshot(texture, state)
KeyS ==
    /\ Polling
    /\ saved' = [key |-> "S", image |-> texture, origin |-> origin.texture,
                 width |-> WINDOW_WIDTH, height |-> WINDOW_HEIGHT]
    /\ UNCHANGED <<state, call, loop, scrollTimer>>
    /\ HandlerFrame

\* the H key: saveHighResScreenshot(state, WINDOW_WIDTH, WINDOW_HEIGHT,
\* SCREENSHOT_SCALE) is called; the event loop goes on when it has returned
KeyH ==
    /\ Polling
    /\ call' = ExportCall(WINDOW_WIDTH, WINDOW_HEIGHT, SCREENSHOT_SCALE)
    /\ pc' = "export"
    /\ budget' = budget - 1
    /\ UNCHANGED <<build, NUM_THREADS, state, hiResState, pixels, hiResPixels, threads,
                   written, stray, origin, texture, saved, loop, scrollTimer, cfa, cf>>

\* any other event: no handler matches
OtherEvent ==
    /\ Polling
    /\ UNCHANGED <<state, call, saved, loop, scrollTimer>>
    /\ HandlerFrame

\* pollEvent returns false; the check for the high-quality render, the timer
\* read as expired or not (once expired it stays so until restarted)
Debounce ==
    /\ pc = "poll"
    /\ \E expired \in (IF scrollTimer THEN {TRUE} ELSE BOOLEAN) :
          /\ scrollTimer' = expired
          /\ loop' = IF (loop.viewChanged \/ loop.pendingHighQualityRender)
                        /\ ~loop.isDragging /\ expired
                     THEN [loop EXCEPT !.needsRedraw = TRUE, !.usePreview = FALSE,
                                       !.viewChanged = FALSE,
                                       !.pendingHighQualityRender = FALSE]
                     ELSE loop
    /\ pc' = "render"
    /\ UNCHANGED <<build, NUM_THREADS, state, hiResState, pixels, hiResPixels, call,
                   threads, written, stray, origin, texture, saved, budget, cfa, cf>>

\* if (needsRedraw) renderFractal(...) is called; otherwise the frame ends
Render ==
    /\ pc = "render"
    /\ IF loop.needsRedraw
       THEN /\ BeginRender(loop.usePreview)
            /\ pc' = "frame_render"
            /\ UNCHANGED loop
       ELSE /\ pc' = NextFrame
            /\ loop' = FrameLocals
            /\ UNCHANGED <<call, threads, written, stray>>
    /\ UNCHANGED <<build, NUM_THREADS, state, hiResState, pixels, hiResPixels, origin,
                   texture, saved, scrollTimer, budget, cfa, cf>>

\* the render of the frame has returned: texture.update(pixels), the frame ends
FrameUpdate ==
    /\ pc = "frame_render"
    /\ call.phase = "returned"
    /\ texture' = pixels
    /\ origin' = [origin EXCEPT !.texture = origin.pixels]
    /\ call' = [call EXCEPT !.phase = "idle"]
    /\ pc' = NextFrame
    /\ loop' = FrameLocals
    /\ UNCHANGED <<build, NUM_THREADS, state, hiResState, pixels, hiResPixels, threads,
                   written, stray, saved, scrollTimer, budget, cfa, cf>>

Next ==
    \/ Start
    \/ InitialUpdate
    \/ Closed
    \/ \E m \in MousePositions, zoomIn \in BOOLEAN : MouseWheelScrolled(m, zoomIn)
    \/ \E m \in MousePositions : MouseButtonPressed(m)
    \/ MouseButtonReleased
    \/ \E m \in MousePositions : MouseMoved(m)
    \/ \E key \in StateKeys : KeyPressed(key)
    \/ KeyS
    \/ KeyH
    \/ OtherEvent
    \/ Debounce
    \/ Render
    \/ FrameUpdate
    \/ Spawn
    \/ SpawnDone
    \/ \E w \in 1 .. MaxThreads : WorkerStep(w)
    \/ Join
    \/ JoinDone
    \/ PreviewStep
    \/ PreviewDone
    \/ ExportBegin
    \/ ExportSave

Spec == Init /\ [][Next]_vars

(***************************************************************************)
(* Properties of the main loop.                                            *)
(***************************************************************************)
\* C8: every image saved to a file, by the S key or by the H key, was produced
\* by a full-resolution render, never by renderPreview.
C8_NeverPersistPreview == saved.key # "none" => saved.origin = "full"

\* a render is in flight: workers have been spawned and the join loop has not
\* ended, or some worker has not finished
InFlight ==
    \/ call.phase \in {"spawn", "join"} /\ Len(threads) > 0
    \/ \E w \in 1 .. Len(threads) : ~Finished(threads[w])

\* C9: no step taken while a render is in flight changes the state the
\* workers read.
C9_StateFixedInFlight ==
    [][InFlight => state' = state /\ hiResState' = hiResState]_vars

\* a render in flight after an event handler has changed the state
C9_Witness ==
    /\ InFlight /\ pc = "frame_render" /\ call.phase = "join"
    /\ state # adjustIterations(DefaultState, build)
    /\ \E w \in 1 .. Len(threads) : ~Finished(threads[w])

(***************************************************************************)
(* The main loop resumed in the middle of a session: at the poll loop, in  *)
(* a state that earlier events have led to, the texture showing the full   *)
(* render of that state.                                                   *)
(***************************************************************************)
\* states that key and mouse events lead to from the start state
InputStates ==
    { \* the start state
      DefaultState,
      \* zoomed out five steps, I pressed six times from 100
      [DefaultState EXCEPT !.autoIterations = FALSE, !.maxIterations = 6400,
                           !.viewportSize = 3 * Scale * 2 ^ 5],
      \* zoomed out six steps, I pressed to the ceiling
      [DefaultState EXCEPT !.autoIterations = FALSE, !.maxIterations = 10000,
                           !.viewportSize = 3 * Scale * 2 ^ 6],
      \* K pressed six times from the ceiling, after one zoom-out step
      [DefaultState EXCEPT !.autoIterations = FALSE, !.maxIterations = 156,
                           !.viewportX = -Scale, !.viewportY = (3 * Scale) \div 2,
                           !.viewportSize = 6 * Scale],
      \* zoomed in to the last size above the resolution of the numbers
      [DefaultState EXCEPT !.viewportY = -(3 * Scale) \div 2, !.viewportSize = 1],
      \* zoomed out seven steps
      [DefaultState EXCEPT !.viewportSize = 3 * Scale * 2 ^ 7],
      \* zoomed in four steps
      [DefaultState EXCEPT !.viewportSize = (3 * Scale) \div 2 ^ 4] }

\* the tracking variables between drags, and just after the left button went down
InputLoops == { NoLoop, [NoLoop EXCEPT !.isDragging = TRUE] }

InitInput ==
    /\ build \in Builds
    /\ NUM_THREADS = 1
    /\ \E st \in InputStates : state = adjustIterations(st, build)
    /\ hiResState = DefaultState
    /\ pixels = renderFractalRegion(NewBuffer(WINDOW_WIDTH * WINDOW_HEIGHT * 4), state,
                                    0, WINDOW_HEIGHT, WINDOW_WIDTH, WINDOW_HEIGHT, build)
    /\ texture = pixels
    /\ hiResPixels = <<>>
    /\ call = NoCall
    /\ threads = <<>>
    /\ written = {}
    /\ stray = {}
    /\ origin = [NoOrigin EXCEPT !.pixels = "full", !.texture = "full"]
    /\ saved = NoSaved
    /\ pc = "poll"
    /\ loop \in InputLoops
    /\ scrollTimer = TRUE
    /\ budget = MaxInputs
    /\ cfa = NoCf
    /\ cf = NoCf

NextInput ==
    \/ Closed
    \/ \E m \in MousePositions, zoomIn \in BOOLEAN : MouseWheelScrolled(m, zoomIn)
    \/ \E m \in MousePositions : MouseButtonPressed(m)
    \/ MouseButtonReleased
    \/ \E m \in MousePositions : MouseMoved(m)
    \/ \E key \in StateKeys : KeyPressed(key)
    \/ KeyS
    \/ KeyH
    \/ OtherEvent
    \/ Debounce
    \/ Render
    \/ FrameUpdate
    \/ Spawn
    \/ SpawnDone
    \/ \E w \in 1 .. MaxThreads : WorkerStep(w)
    \/ Join
    \/ JoinDone
    \/ PreviewStep
    \/ PreviewDone
    \/ ExportBegin
    \/ ExportSave

SpecInput == InitInput /\ [][NextInput]_vars

(***************************************************************************)
(* Properties of the iteration cap.                                        *)
(***************************************************************************)
\* a render call, or the export, is in progress
Rendering == call.phase # "idle"

\* C13: the cap lies in [100, 10000] whenever a render is in progress (and at
\* every other moment of the resumed loop), whatever events came before.
C13_CapInRange ==
    /\ state.maxIterations \in 100 .. 10000
    /\ Rendering => RefState.maxIterations \in 100 .. 10000

\* a render started with the cap at the ceiling, the I key having doubled 6400
C13_Witness ==
    /\ pc = "frame_render" /\ call.phase = "spawn" /\ budget = 0
    /\ ~state.autoIterations /\ state.maxIterations = 10000
    /\ state.viewportSize = 3 * Scale * 2 ^ 5

\* log10 of a fixed-point number v > 0
Log10Fix(v) == (Log2Fix(v) * 1000) \div 3322

RECURSIVE Pow10(_)
Pow10(k) == IF k = 0 THEN 1 ELSE 10 * Pow10(k - 1)

\* log10(1 + z) for z = zm * 10^k, zm a fixed-point mantissa: from 10^2 on the
\* 1 is below the resolution of the numbers
Log10OnePlus(zm, k) ==
    IF k >= 2 THEN k * Scale + Log10Fix(zm)
    ELSE IF k >= 0 THEN Log10Fix(Scale + zm * Pow10(k))
    ELSE Log10Fix(Scale + zm \div Pow10(-k))

\* the cap adjustIterations sets for viewportSize = m * 10^e, m a fixed-point
\* mantissa (the sizes below the resolution of the fixed-point viewport)
AutoIterationsOfSize(m, e, b) ==
    Max(100, Min(10000,
        CastInt(Times(Fin(Log10OnePlus((3 * Scale * Scale) \div m, -e)), 100), b)))

\* clamp(floor(100 * log10(1 + 3.0 / size)), 100, 10000) as a value of
\* mathematics: at size 0 the logarithm is unbounded and the clamp is 10000
AutoReference(viewportSize) ==
    IF viewportSize = 0 THEN 10000
    ELSE Max(100, Min(10000,
            (Log10Fix(Scale + (3 * Scale * Scale) \div viewportSize) * 100) \div Scale))

\* the cap of a render in progress is the one the formula gives for the size
\* in use
CapIsCurrent == RefState.maxIterations = AutoReference(RefState.viewportSize)

C15_ExplicitAdjust ==
    [][/\ KeyPressed("I") =>
            /\ state'.autoIterations = FALSE
            /\ state'.maxIterations = Min(10000, 2 * state.maxIterations)
            /\ state'.maxIterations \in 100 .. 10000
       /\ KeyPressed("K") =>
            /\ state'.autoIterations = FALSE
            /\ state'.maxIterations = Max(100, state.maxIterations \div 2)
            /\ state'.maxIterations \in 100 .. 10000]_vars

\* the K key has halved 156 and the floor has held the cap at 100
C15_Witness ==
    /\ budget = 0 /\ ~state.autoIterations /\ state.maxIterations = 100
    /\ state.viewportSize = 6 * Scale

\* C16: with auto-mode off adjustIterations returns the state as it was, and
\* no step but those of the I, K and A keys changes the cap.
C16_ManualCapKept ==
    [][~state.autoIterations =>
          /\ adjustIterations(state, build) = state
          /\ (~(KeyPressed("I") \/ KeyPressed("K") \/ KeyPressed("A")) =>
                state'.maxIterations = state.maxIterations)]_vars

\* a zoom step taken with auto-mode off: the size has changed, the cap has not
C16_Witness ==
    /\ budget = 0 /\ ~state.autoIterations /\ state.maxIterations = 6400
    /\ state.viewportSize = 3 * Scale * 2 ^ 4

(***************************************************************************)
(* The colour mapper on its own: the lines of renderFractalRegion (and of  *)
(* renderPreview) between the call of calculateFractal and the pixel store,*)
(* applied to one result under one state.                                  *)
(***************************************************************************)
\* results calculateFractal returns through the escape exit: i passes, each
\* adding at most 1 to stripeSum, the orbit at the radius or ten times beyond;
\* and the sentinel
ColorInfos ==
    UNION { { [iteration |-> i, smoothIteration |-> SmoothIteration(i, r2), stripeSum |-> sum] :
                r2 \in {ESCAPE_RADIUS_SQUARED, 100 * ESCAPE_RADIUS_SQUARED},
                sum \in { k * (Scale \div 2) : k \in 0 .. 2 * i } } :
            i \in 0 .. MaxCount }
    \cup {Sentinel}

\* states the C, Z, V, B and Up keys lead to
ColorStates ==
    { [DefaultState EXCEPT !.colorScheme = c, !.stripes = z, !.stripeIntensity = v,
                           !.colorDensity = d] :
        c \in 0 .. Len(PALETTES) - 1, z \in BOOLEAN, v \in {-2, -1, 0, 1, 10},
        d \in {(2 * DensityScale) \div 10, DensityScale} }

InitColor ==
    /\ build \in Builds
    /\ cfa \in { [info |-> info, st |-> st] : info \in ColorInfos, st \in ColorStates }
    /\ cf = [pc |-> "map"]
    /\ NUM_THREADS = 1
    /\ state = cfa.st
    /\ hiResState = DefaultState
    /\ call = NoCall
    /\ pixels = <<>>
    /\ hiResPixels = <<>>
    /\ threads = <<>>
    /\ written = {}
    /\ stray = {}
    /\ origin = NoOrigin
    /\ texture = <<>>
    /\ saved = NoSaved
    /\ pc = "harness"
    /\ loop = NoLoop
    /\ scrollTimer = FALSE
    /\ budget = 0

\* sf::Color color is computed from info
MapStep ==
    /\ cf.pc = "map"
    /\ cf' = [pc |-> "mapped",
              color |-> MapColor(cfa.info, state, PaletteOf(state), build)]
    /\ UNCHANGED <<build, NUM_THREADS, state, hiResState, pixels, hiResPixels, call,
                   threads, written, stray, origin, texture, saved, pc, loop,
                   scrollTimer, budget, cfa>>

NextColor == MapStep

SpecColor == InitColor /\ [][NextColor]_vars

(***************************************************************************)
(* Properties of the colour mapper.                                        *)
(***************************************************************************)
\* a colour has been computed for a result that is not the sentinel
Mapped == cf.pc = "mapped" /\ cfa.info.iteration # -1

\* the coloring scalar t of the result
Scalar == ColoringScalar(cfa.info, state)

\* floor(t) of a finite scalar
Floor(t) == t.v \div Scale

\* C17: for every finite coloring scalar t, negative ones included, the colour
\* is the blend of palette[floor(t) mod L] and palette[(floor(t) + 1) mod L] by
\* t - floor(t), mod being the floor-modulo with values in [0, L).
C17_FloorModIndex ==
    Mapped /\ Scalar.k = "fin" =>
        LET palette == PaletteOf(state)
            L == Len(palette)
        IN  cf.color = interpolateColors(At(palette, Floor(Scalar) % L),
                                         At(palette, (Floor(Scalar) + 1) % L),
                                         Fract(Scalar), build)

\* C18: for every coloring scalar t that is an exact integer the colour is
\* palette[t mod L], on all three channels.
C18_IntegerExact ==
    Mapped /\ Scalar.k = "fin" /\ Scalar.v % Scale = 0 =>
        cf.color = At(PaletteOf(state), Floor(Scalar) % Len(PaletteOf(state)))

\* C19: the colour of a result that is not the sentinel, its coloring scalar
\* finite (the blend fraction in [0, 1)), is never (0, 0, 0), in any palette.
C19_BlackReserved == Mapped /\ Scalar.k = "fin" => cf.color # <<0, 0, 0>>

(***************************************************************************)
(* The smoothing formula.                                                  *)
(***************************************************************************)
\* the call has returned a result whose smoothIteration was computed: through
\* the escape exit, or at the cap with innerCalculation set
SmoothingEvaluated ==
    cf.pc = "done" /\ (cf.exit = "escape" \/ (cf.exit = "cap" /\ cfa.innerCalculation))

\* C20: whenever the smoothing formula has been evaluated, the orbit is outside
\* the escape radius (zr2 + zi2 >= 10000).
C20_SmoothingOutside == SmoothingEvaluated => Outside

(***************************************************************************)
(* The main loop after the initial render, one worker thread, with time    *)
(* passing: the main thread and the worker keep running, and the clock of  *)
(* scrollTimer passes SCROLL_RENDER_DELAY in some later frame unless it is *)
(* restarted.  The events are the environment's: none is required to       *)
(* happen.                                                                 *)
(***************************************************************************)
\* the state main's loop starts in: the start state rendered in full
InitLoop ==
    /\ build \in Builds
    /\ NUM_THREADS = 1
    /\ state = adjustIterations(DefaultState, build)
    /\ hiResState = DefaultState
    /\ pixels = renderFractalRegion(NewBuffer(WINDOW_WIDTH * WINDOW_HEIGHT * 4), state,
                                    0, WINDOW_HEIGHT, WINDOW_WIDTH, WINDOW_HEIGHT, build)
    /\ texture = pixels
    /\ hiResPixels = <<>>
    /\ call = NoCall
    /\ threads = <<>>
    /\ written = {}
    /\ stray = {}
    /\ origin = [NoOrigin EXCEPT !.pixels = "full", !.texture = "full"]
    /\ saved = NoSaved
    /\ pc = "poll"
    /\ loop = NoLoop
    /\ scrollTimer = FALSE
    /\ budget = MaxEvents
    /\ cfa = NoCf
    /\ cf = NoCf

SpecLoop == InitLoop /\ [][NextInput]_vars

\* a step of the main thread outside the pixel loops that is not the handling
\* of an event
MainThreadStep ==
    \/ Debounce
    \/ Render
    \/ FrameUpdate
    \/ Spawn
    \/ SpawnDone
    \/ Join
    \/ JoinDone
    \/ PreviewDone
    \/ ExportBegin
    \/ ExportSave

\* a pixel loop has a pass to make: the guard of PreviewStep, or of WorkerStep
\* for some thread
RendererCanStep ==
    \/ call.phase = "preview" /\ call.y < call.height
    \/ \E w \in 1 .. Len(threads) : ~Finished(threads[w])

\* a pass of a pixel loop: the block origin of renderPreview, or the position of
\* a thread, has advanced
RendererStep ==
    \/ call.phase = "preview" /\ call'.phase = "preview"
          /\ <<call'.x, call'.y>> # <<call.x, call.y>>
    \/ Len(threads') = Len(threads) /\ threads' # threads

\* weak fairness of the pixel loops, written out: a loop that can go on makes
\* a pass
RendererFair == []<>(~RendererCanStep) \/ []<><<RendererStep>>_vars

\* the check of line 668 made when the delay has passed
DebounceExpired == Debounce /\ scrollTimer'

SpecFair ==
    SpecLoop /\ WF_vars(MainThreadStep) /\ RendererFair /\ SF_vars(DebounceExpired)

\* the viewport is not the one of the start state: a zoom or a pan has acted
ViewMoved ==
    \/ state.viewportSize # DefaultState.viewportSize
    \/ state.viewportX # DefaultState.viewportX
    \/ state.viewportY # DefaultState.viewportY

\* the window shows a preview of a zoomed or panned view, the button is up and
\* no further input arrives
PreviewShownAtRest ==
    /\ origin.texture = "preview"
    /\ ViewMoved
    /\ budget = 0
    /\ ~loop.isDragging
    /\ loop.windowOpen

\* C21: when the window shows a preview of a zoomed or panned view, the button
\* is released and no further input arrives, the window eventually shows a
\* full-quality render.
C21_FullRenderFollows == PreviewShownAtRest ~> origin.texture = "full"

\* the same with a full-quality render pending: the case in which the debounce
\* does bring it
FullRenderPendingFollows ==
    (PreviewShownAtRest /\ (loop.viewChanged \/ loop.pendingHighQualityRender))
        ~> origin.texture = "full"

(***************************************************************************)
(* The zoom of the mouse wheel.                                            *)
(***************************************************************************)
\* the wheel handler ran its body: the cursor at m inside the window
WheelZoom(m, zoomIn) == MouseWheelScrolled(m, zoomIn) /\ InWindow(m)

\* after the step the cursor pixel maps to the coordinate it mapped to before,
\* and the size is the old size times the factor (0.5 or 2.0), above 0
AnchoredAt(m, zoomIn) ==
    /\ MouseComplexX(state', m) = MouseComplexX(state, m)
    /\ MouseComplexY(state', m) = MouseComplexY(state, m)
    /\ (IF zoomIn THEN 2 * state'.viewportSize = state.viewportSize
                  ELSE state'.viewportSize = 2 * state.viewportSize)
    /\ state'.viewportSize > 0

\* C22: every zoom step of the wheel, from every viewport and with the cursor
\* at every pixel of the window, keeps the coordinate under the cursor, and
\* multiplies viewportSize by exactly the factor, leaving it above 0.
C22_CursorAnchoredZoom ==
    [][\A m \in MousePositions, zoomIn \in BOOLEAN :
            WheelZoom(m, zoomIn) => AnchoredAt(m, zoomIn)]_vars

\* the same for the viewports whose size and half size the numbers hold
\* exactly
AnchoredAboveResolution ==
    [][\A m \in MousePositions, zoomIn \in BOOLEAN :
            WheelZoom(m, zoomIn) /\ state.viewportSize % 2 = 0 => AnchoredAt(m, zoomIn)]_vars

(***************************************************************************)
(* The region the export samples.                                          *)
(***************************************************************************)
\* saveHighResScreenshot has copied the state and allocated its buffer
Exporting == call.target = "hiRes" /\ call.phase \in {"spawn", "join", "returned"}

\* export pixel (scale * x, scale * y) is sampled at the coordinate of window
\* pixel (x, y), for every window pixel
SameSamples ==
    \A x \in 0 .. WINDOW_WIDTH - 1, y \in 0 .. WINDOW_HEIGHT - 1 :
        PixelCoord(hiResState, call.scale * x, call.scale * y, call.width)
            = PixelCoord(state, x, y, WINDOW_WIDTH)

\* the same up to the rounding of pixelSize: the quotient by width * scale,
\* multiplied back by scale, falls short of the quotient by width by less
\* than scale units
NearSamples ==
    \A x \in 0 .. WINDOW_WIDTH - 1, y \in 0 .. WINDOW_HEIGHT - 1 :
        LET e == PixelCoord(hiResState, call.scale * x, call.scale * y, call.width)
            w == PixelCoord(state, x, y, WINDOW_WIDTH)
        IN  /\ w.cr - e.cr \in 0 .. x * (call.scale - 1)
            /\ w.ci - e.ci \in 0 .. y * (call.scale - 1)

\* the export renders the live state, unchanged, into a buffer of
\* width * scale by height * scale pixels
ExportGeometry ==
    /\ hiResState = state
    /\ call.width = WINDOW_WIDTH * SCREENSHOT_SCALE
    /\ call.height = WINDOW_HEIGHT * SCREENSHOT_SCALE
    /\ call.scale = SCREENSHOT_SCALE
    /\ DOMAIN hiResPixels = 0 .. call.width * call.height * 4 - 1

\* C23 as stated: the export renders the same viewport at width * scale by
\* height * scale, the live state unchanged, and every export pixel
\* (scale * x, scale * y) is sampled at exactly the coordinate of pixel (x, y).
C23_ExportSameSamples == Exporting => ExportGeometry /\ SameSamples

\* C23: the export renders the same viewport at width * scale by
\* height * scale, the live state unchanged; export pixel (scale * x, scale * y)
\* is sampled at the coordinate of pixel (x, y) up to the rounding of
\* pixelSize, and at exactly that coordinate when viewportSize is a whole
\* multiple of width * scale units.
C23_ExportSameRegion ==
    Exporting =>
        /\ ExportGeometry
        /\ NearSamples
        /\ state.viewportSize % call.width = 0 => SameSamples

\* an export has returned for a viewport whose size the export's width does
\* not divide: some export pixel is sampled beside its window pixel
C23_Witness ==
    /\ Exporting /\ call.phase = "returned"
    /\ state.viewportSize > 0
    /\ state.viewportSize % call.width # 0
    /\ ~SameSamples

(***************************************************************************)
(* The results handed to the colour mapper.                                *)
(***************************************************************************)
\* the result calculateFractal returns for pixel (x, y) of a render of st
SampleInfo(st, x, y, width) ==
    LET c == PixelCoord(st, x, y, width)
    IN  calculateFractal(CfArgsOf(st, c.cr, c.ci))

\* the results the next pass of each pixel loop in progress hands to the mapper
PendingSamples ==
    { SampleInfo(RefState, threads[w].x, threads[w].y, call.width) :
        w \in { v \in 1 .. Len(threads) : ~Finished(threads[v]) } }
    \cup (IF call.phase = "preview" /\ call.y < call.height
          THEN {SampleInfo(RefState, call.x, call.y, call.width)}
          ELSE {})

\* C24: in stripe mode every result handed to the colour mapper that is not
\* the sentinel has an iteration count of at least 1, so stripeSum / iteration
\* never divides by 0.
C24_CountAtLeastOne ==
    \A info \in PendingSamples :
        RefState.stripes /\ info.iteration # -1 => info.iteration >= 1

(***************************************************************************)
(* The C key and the colour mapper on their own: the key pressed up to     *)
(* MaxPresses times at the poll loop, a result mapped under the palette    *)
(* the presses have selected.                                              *)
(***************************************************************************)
InitPalette ==
    /\ build \in Builds
    /\ cfa \in { [info |-> info, st |-> st] : info \in ColorInfos, st \in ColorStates }
    /\ cf = [pc |-> "map"]
    /\ NUM_THREADS = 1
    /\ state = cfa.st
    /\ hiResState = DefaultState
    /\ call = NoCall
    /\ pixels = <<>>
    /\ hiResPixels = <<>>
    /\ threads = <<>>
    /\ written = {}
    /\ stray = {}
    /\ origin = NoOrigin
    /\ texture = <<>>
    /\ saved = NoSaved
    /\ pc = "poll"
    /\ loop = NoLoop
    /\ scrollTimer = FALSE
    /\ budget = MaxPresses

NextPalette ==
    \/ KeyPressed("C")
    \/ MapStep

SpecPalette == InitPalette /\ [][NextPalette]_vars

\* the number of times the C key has been pressed
Presses == MaxPresses - budget

\* the index static_cast<int>(iterations) % palette.size() of the result
MappedIndex == PaletteIndex(Scalar, PaletteOf(state), build)

\* C25: after any number of presses of the C key colorScheme lies in
\* [0, number of palettes) and is the start value advanced cyclically, back at
\* the start after as many presses as there are palettes; and for every
\* result mapped, whatever the sign of its truncated scalar, palette[index]
\* and palette[(index + 1) mod length] are read inside the palette.
C25_PaletteInBounds ==
    LET count == Len(PALETTES)
        length == Len(PaletteOf(state))
    IN  /\ state.colorScheme \in 0 .. count - 1
        /\ state.colorScheme = (cfa.st.colorScheme + Presses) % count
        /\ Presses = count => state.colorScheme = cfa.st.colorScheme
        /\ UnsignedMod(state.colorScheme, count) \in 0 .. count - 1
        /\ Mapped => /\ MappedIndex \in 0 .. length - 1
                     /\ (MappedIndex + 1) % length \in 0 .. length - 1

\* the C key has been pressed once for each palette and a result whose scalar
\* truncates to a negative integer has been mapped
C25_Witness ==
    /\ Presses = Len(PALETTES)
    /\ Mapped
    /\ Scalar.k = "fin"
    /\ CastInt(Scalar, build) < 0

====
